---- MODULE Spec2Model ----
(***************************************************************************)
(* Model of beads_yolo_runner.py: the selection of the first open leaf     *)
(* task of a hierarchical backlog (select_first_open_leaf_task_id and      *)
(* select_first_open_leaf_task), the execution of one task (run_once) and  *)
(* the driving loop (run_loop).                                            *)
(*                                                                         *)
(* The backlog store, the coding agent and version control are external:   *)
(* what they answer is a nondeterministic choice in the actions.           *)
(***************************************************************************)
EXTENDS Integers, Sequences, FiniteSets, TLC

VARIABLES
    issues,         \* the backlog store: id -> [parent, issue_type, status, priority]
    pc,             \* position in run_loop / run_once (or in the selection harness)
    max_tasks,      \* run_loop's max_tasks (NoMax = None)
    dry_run,        \* run_loop's dry_run
    completed,      \* run_loop's counter
    result,         \* what the last run_once returned ("" before the first return)
    leaf_id,        \* run_once's leaf_id
    tree_leaf,      \* what select_first_open_leaf_task returned
    head,           \* version control: the head revision (number of commits made)
    dirty,          \* version control: the working tree holds uncommitted changes
    log,            \* the audit log, a sequence of [issue_id, status, commit_sha]
    calls,          \* the mutating store and version-control calls issued, in order
    dispatched,     \* the task ids handed to the agent, in order
    status_output,  \* run_once's status_output: "" (not asked yet), "clean" or "dirty"
    commit_sha,     \* run_once's commit_sha (NoSha before rev-parse answered)
    closed_status,  \* run_once's closed_status ("" before the re-fetch)
    raised,         \* the collaborator call whose failure ended the run ("" if none)
    attempt,        \* what the running run_once found when it was called
    initial_issues, \* the backlog store as the run found it
    outcomes        \* what the run_once calls of the run returned, in order

vars == <<issues, pc, max_tasks, dry_run, completed, result, leaf_id, tree_leaf,
          head, dirty, log, calls, dispatched, status_output, commit_sha,
          closed_status, raised, attempt, initial_issues, outcomes>>

---------------------------------------------------------------------------
(* Bounds *)

NumIssues == 3          \* issue nodes in the backlog (besides the root)
MaxPriority == 2        \* priorities are 0..MaxPriority, or absent
MaxCap == 1             \* max_tasks is None or in -1..MaxCap

(* Program constants *)

DefaultPriority == 999  \* item.get("priority", 999)
RootId == 0             \* root_id: the id the walk starts from
NoId == -1              \* None / "": a falsy id
NoPriority == -1        \* the item has no "priority" key
NoMax == -2             \* max_tasks is None
NoSha == -1             \* commit_sha is not assigned yet

Ids == 1..NumIssues
Priorities == 0..MaxPriority
IssueTypes == {"task", "epic"}

---------------------------------------------------------------------------
(* The backlog store's answers *)

ChildIds(parent_id) ==
    SelectSeq([i \in 1..NumIssues |-> i], LAMBDA c: issues[c].parent = parent_id)

Item(c) ==
    [id |-> c, status |-> issues[c].status, issue_type |-> issues[c].issue_type,
     priority |-> issues[c].priority]

\* bd ready --parent <parent_id> --json
load_children(parent_id) ==
    LET cs == ChildIds(parent_id) IN [i \in 1..Len(cs) |-> Item(cs[i])]

\* the materialized tree handed to select_first_open_leaf_task
RECURSIVE Materialize(_)
Materialize(parent_id) ==
    LET cs == ChildIds(parent_id) IN
    [i \in 1..Len(cs) |->
        [id |-> cs[i], status |-> issues[cs[i]].status,
         issue_type |-> issues[cs[i]].issue_type,
         priority |-> issues[cs[i]].priority,
         children |-> Materialize(cs[i])]]

---------------------------------------------------------------------------
(* sorted(items, key=lambda item: item.get("priority", 999)): a stable sort *)

PriorityKey(item) ==
    IF item.priority = NoPriority THEN DefaultPriority ELSE item.priority

\* x goes after every element whose key is not greater (stability)
InsertByKey(s, x) ==
    LET n == Cardinality({i \in 1..Len(s) : PriorityKey(s[i]) <= PriorityKey(x)})
    IN SubSeq(s, 1, n) \o <<x>> \o SubSeq(s, n + 1, Len(s))

RECURSIVE StableSort(_)
StableSort(items) ==
    IF items = <<>> THEN <<>>
    ELSE InsertByKey(StableSort(SubSeq(items, 1, Len(items) - 1)), items[Len(items)])

\* mutant: the children are scanned in the order the store lists them
sorted_items_unsorted(items) == items

sorted_items(items) == StableSort(items)

\* mutant: sorted(..., reverse=True)
find_leaf_sorted_items_reversed(items) ==
    LET s == StableSort(items) IN [i \in 1..Len(s) |-> s[Len(s) + 1 - i]]

find_leaf_sorted_items(items) == StableSort(items)

---------------------------------------------------------------------------
(* select_first_open_leaf_task_id(root_id, command_runner) *)

RECURSIVE walk(_), walk_loop(_, _)

\* mutant: the status test is missing
walk_loop_any_status(items, i) ==
    IF i > Len(items) THEN NoId
    ELSE LET item == items[i] IN
         IF item.id = NoId THEN walk_loop(items, i + 1)
         ELSE IF item.issue_type = "task" THEN item.id
         ELSE IF item.issue_type = "epic"
              THEN LET leaf == walk(item.id) IN
                   IF leaf # NoId THEN leaf ELSE walk_loop(items, i + 1)
         ELSE walk_loop(items, i + 1)

\* mutant: "return walk(issue_id)": an epic ends the scan whatever it yields
walk_loop_epic_ends_scan(items, i) ==
    IF i > Len(items) THEN NoId
    ELSE LET item == items[i] IN
         IF item.status # "open" THEN walk_loop(items, i + 1)
         ELSE IF item.id = NoId THEN walk_loop(items, i + 1)
         ELSE IF item.issue_type = "task" THEN item.id
         ELSE IF item.issue_type = "epic" THEN walk(item.id)
         ELSE walk_loop(items, i + 1)

\* the for loop of walk, from the i-th sorted item on
walk_loop(items, i) ==
    IF i > Len(items) THEN NoId
    ELSE LET item == items[i] IN
         IF item.status # "open" THEN walk_loop(items, i + 1)
         ELSE IF item.id = NoId THEN walk_loop(items, i + 1)
         ELSE IF item.issue_type = "task" THEN item.id
         ELSE IF item.issue_type = "epic"
              THEN LET leaf == walk(item.id) IN
                   IF leaf # NoId THEN leaf ELSE walk_loop(items, i + 1)
         ELSE walk_loop(items, i + 1)

walk_items(items) == walk_loop(sorted_items(items), 1)

walk(parent_id) == walk_items(load_children(parent_id))

select_first_open_leaf_task_id(root_id) == walk(root_id)

---------------------------------------------------------------------------
(* select_first_open_leaf_task(tree) *)

RECURSIVE find_leaf(_), find_leaf_loop(_, _)

\* mutant: an open epic without children is returned as if it were a leaf
find_leaf_loop_childless_epic_is_leaf(items, i) ==
    IF i > Len(items) THEN NoId
    ELSE LET item == items[i] IN
         IF item.status # "open" THEN find_leaf_loop(items, i + 1)
         ELSE IF item.issue_type = "epic"
              THEN IF item.children = <<>> THEN item.id
                   ELSE LET leaf == find_leaf(item.children) IN
                        IF leaf # NoId THEN leaf ELSE find_leaf_loop(items, i + 1)
         ELSE IF item.issue_type = "task" THEN item.id
         ELSE find_leaf_loop(items, i + 1)

find_leaf_loop(items, i) ==
    IF i > Len(items) THEN NoId
    ELSE LET item == items[i] IN
         IF item.status # "open" THEN find_leaf_loop(items, i + 1)
         ELSE IF item.issue_type = "epic"
              THEN IF item.children = <<>> THEN find_leaf_loop(items, i + 1)
                   ELSE LET leaf == find_leaf(item.children) IN
                        IF leaf # NoId THEN leaf ELSE find_leaf_loop(items, i + 1)
         ELSE IF item.issue_type = "task" THEN item.id
         ELSE find_leaf_loop(items, i + 1)

find_leaf(items) == find_leaf_loop(find_leaf_sorted_items(items), 1)

select_first_open_leaf_task(tree) == find_leaf(tree)

---------------------------------------------------------------------------
(* Initial backlogs: a forest under the root in which only epics have      *)
(* children; ids are unique and non-empty, and the store lists children in *)
(* ascending id order (priorities are arbitrary, so every arrangement of   *)
(* priorities over the input positions occurs).                            *)

InitialStatuses == {"open", "closed"}

\* the parents a node may have: the root, or an epic listed before it
ParentsOf(n, types) == {RootId} \cup {m \in Ids : m < n /\ types[m] = "epic"}

Backlog(types, parents, statuses, priorities) ==
    [n \in Ids |-> [parent |-> parents[n], issue_type |-> types[n],
                    status |-> statuses[n], priority |-> priorities[n]]]

\* the backlogs whose priorities are drawn from P
InitialBacklog(P) ==
    \E types \in [Ids -> IssueTypes] :
    \E parents \in [Ids -> {RootId} \cup Ids] :
        /\ \A n \in Ids : parents[n] \in ParentsOf(n, types)
        /\ \E statuses \in [Ids -> InitialStatuses] :
           \E priorities \in [Ids -> P] :
               issues = Backlog(types, parents, statuses, priorities)

NoAttempt == [n |-> 0, log_n |-> 0, head |-> 0, calls_n |-> 0, disp_n |-> 0]

Idle ==
    /\ max_tasks = NoMax
    /\ dry_run = FALSE
    /\ completed = 0
    /\ result = ""
    /\ leaf_id = NoId
    /\ tree_leaf = NoId
    /\ head = 0
    /\ dirty = FALSE
    /\ log = <<>>
    /\ calls = <<>>
    /\ dispatched = <<>>
    /\ status_output = ""
    /\ commit_sha = NoSha
    /\ closed_status = ""
    /\ raised = ""
    /\ attempt = NoAttempt
    /\ initial_issues = issues
    /\ outcomes = <<>>

---------------------------------------------------------------------------
(* The selection harness: both selection functions applied to one backlog  *)


\* integer priorities just below, at and just above the default of the sort key
SentinelPriorities == {DefaultPriority - 1, DefaultPriority, DefaultPriority + 1}

\* one level of tasks under the root, with every priority of the bounds and
\* the priorities around the sort key's default
FlatBacklog ==
    \E statuses \in [Ids -> InitialStatuses] :
    \E priorities \in [Ids -> Priorities \cup SentinelPriorities \cup {NoPriority}] :
        issues = Backlog([n \in Ids |-> "task"], [n \in Ids |-> RootId],
                         statuses, priorities)

\* the highest priority, the lowest, or none
CoarsePriorities == {0, MaxPriority, NoPriority}

\* every forest with coarse priorities, and every flat level with fine ones
SelInit ==
    /\ InitialBacklog(CoarsePriorities) \/ FlatBacklog
    /\ pc = "select_id"
    /\ Idle

SelectById ==
    /\ pc = "select_id"
    /\ leaf_id' = select_first_open_leaf_task_id(RootId)
    /\ pc' = "select_tree"
    /\ UNCHANGED <<issues, max_tasks, dry_run, completed, result, tree_leaf,
                   head, dirty, log, calls, dispatched, status_output,
                   commit_sha, closed_status, raised, attempt, initial_issues,
                   outcomes>>

SelectInTree ==
    /\ pc = "select_tree"
    /\ tree_leaf' = select_first_open_leaf_task(Materialize(RootId))
    /\ pc' = "selected"
    /\ UNCHANGED <<issues, max_tasks, dry_run, completed, result, leaf_id,
                   head, dirty, log, calls, dispatched, status_output,
                   commit_sha, closed_status, raised, attempt, initial_issues,
                   outcomes>>

SelNext == SelectById \/ SelectInTree

SelSpec == SelInit /\ [][SelNext]_vars

---------------------------------------------------------------------------
(* run_loop and run_once, one action per collaborator call                 *)

params == <<max_tasks, dry_run, tree_leaf>>

history == <<initial_issues, outcomes>>

locals == <<status_output, closed_status>>

\* an unhandled exception of a collaborator call: it leaves run_once and
\* run_loop, nothing else happens
Raises(call) ==
    /\ pc' = "raised"
    /\ raised' = call
    /\ UNCHANGED <<issues, completed, result, leaf_id, head, dirty, log, calls,
                   dispatched, commit_sha, attempt, params, history, locals>>

StoreCall(op, id, status) == [op |-> op, id |-> id, status |-> status]

SetStatus(id, status) == [issues EXCEPT ![id].status = status]

LogEntry(id, status, sha) == [issue_id |-> id, status |-> status, commit_sha |-> sha]

\* The runs start from the backlogs whose issues carry no priority: the
\* store's order decides among siblings.
Init ==
    /\ InitialBacklog({NoPriority})
    /\ pc = "loop"
    /\ max_tasks \in {NoMax} \cup (-1..MaxCap)
    /\ dry_run \in BOOLEAN
    /\ completed = 0
    /\ result = ""
    /\ leaf_id = NoId
    /\ tree_leaf = NoId
    /\ head = 0
    /\ dirty = FALSE
    /\ log = <<>>
    /\ calls = <<>>
    /\ dispatched = <<>>
    /\ status_output = ""
    /\ commit_sha = NoSha
    /\ closed_status = ""
    /\ raised = ""
    /\ attempt = NoAttempt
    /\ initial_issues = issues
    /\ outcomes = <<>>

\* mutant: "completed > max_tasks"
LoopTest_off_by_one ==
    /\ pc = "loop"
    /\ IF max_tasks # NoMax /\ completed > max_tasks
       THEN /\ pc' = "returned"
            /\ UNCHANGED <<leaf_id, commit_sha, attempt, locals>>
       ELSE /\ pc' = "select"
            /\ leaf_id' = NoId
            /\ status_output' = ""
            /\ commit_sha' = NoSha
            /\ closed_status' = ""
            /\ attempt' = [n |-> attempt.n + 1, log_n |-> Len(log), head |-> head,
                           calls_n |-> Len(calls), disp_n |-> Len(dispatched)]
    /\ UNCHANGED <<issues, completed, result, head, dirty, log, calls, dispatched,
                   raised, params, history>>

\* mutant: run_once is called before max_tasks is looked at
LoopTest_untested ==
    /\ pc = "loop"
    /\ pc' = "select"
    /\ leaf_id' = NoId
    /\ status_output' = ""
    /\ commit_sha' = NoSha
    /\ closed_status' = ""
    /\ attempt' = [n |-> attempt.n + 1, log_n |-> Len(log), head |-> head,
                   calls_n |-> Len(calls), disp_n |-> Len(dispatched)]
    /\ UNCHANGED <<issues, completed, result, head, dirty, log, calls, dispatched,
                   raised, params, history>>

\* run_loop: the max_tasks test, then the call of run_once
LoopTest ==
    /\ pc = "loop"
    /\ IF max_tasks # NoMax /\ completed >= max_tasks
       THEN /\ pc' = "returned"
            /\ UNCHANGED <<leaf_id, commit_sha, attempt, locals>>
       ELSE /\ pc' = "select"
            /\ leaf_id' = NoId
            /\ status_output' = ""
            /\ commit_sha' = NoSha
            /\ closed_status' = ""
            /\ attempt' = [n |-> attempt.n + 1, log_n |-> Len(log), head |-> head,
                           calls_n |-> Len(calls), disp_n |-> Len(dispatched)]
    /\ UNCHANGED <<issues, completed, result, head, dirty, log, calls, dispatched,
                   raised, params, history>>

\* mutant: the empty selection is written to the audit log
Select_logs_no_tasks ==
    /\ pc = "select"
    /\ \/ LET leaf == select_first_open_leaf_task_id(RootId) IN
          /\ leaf_id' = leaf
          /\ IF leaf = NoId
             THEN /\ result' = "no_tasks"
                  /\ pc' = "outcome"
                  /\ log' = Append(log, LogEntry(NoId, "no_tasks", head))
             ELSE result' = result /\ pc' = "show" /\ log' = log
          /\ UNCHANGED <<issues, completed, head, dirty, calls, dispatched,
                         commit_sha, raised, attempt, params, history, locals>>
       \/ Raises("ready")

\* leaf_id = select_first_open_leaf_task_id(...); if not leaf_id: return "no_tasks"
Select ==
    /\ pc = "select"
    /\ \/ LET leaf == select_first_open_leaf_task_id(RootId) IN
          /\ leaf_id' = leaf
          /\ IF leaf = NoId
             THEN result' = "no_tasks" /\ pc' = "outcome"
             ELSE result' = result /\ pc' = "show"
          /\ UNCHANGED <<issues, completed, head, dirty, log, calls, dispatched,
                         commit_sha, raised, attempt, params, history, locals>>
       \/ Raises("ready")

\* mutant: the dry_run test is missing
ShowTask_ignores_dry_run ==
    /\ pc = "show"
    /\ \/ /\ result' = result
          /\ pc' = "mark_in_progress"
          /\ UNCHANGED <<issues, completed, leaf_id, head, dirty, log, calls,
                         dispatched, commit_sha, raised, attempt, params, history, locals>>
       \/ Raises("show")

\* task_data = bd show leaf_id; prompt and command; if dry_run: return "dry_run"
\* mutant: the task is marked in_progress before its record is fetched
ShowTask_marks_first ==
    /\ pc = "show"
    /\ \/ /\ IF dry_run
             THEN result' = "dry_run" /\ pc' = "outcome"
             ELSE result' = result /\ pc' = "mark_in_progress"
          /\ UNCHANGED <<issues, completed, leaf_id, head, dirty, log, calls,
                         dispatched, commit_sha, raised, attempt, params, history, locals>>
       \/ /\ pc' = "raised"
          /\ raised' = "show"
          /\ issues' = SetStatus(leaf_id, "in_progress")
          /\ calls' = Append(calls, StoreCall("update", leaf_id, "in_progress"))
          /\ UNCHANGED <<completed, result, leaf_id, head, dirty, log, dispatched,
                         commit_sha, attempt, params, history, locals>>

ShowTask ==
    /\ pc = "show"
    /\ \/ /\ IF dry_run
             THEN result' = "dry_run" /\ pc' = "outcome"
             ELSE result' = result /\ pc' = "mark_in_progress"
          /\ UNCHANGED <<issues, completed, leaf_id, head, dirty, log, calls,
                         dispatched, commit_sha, raised, attempt, params, history, locals>>
       \/ Raises("show")

\* mutant: the agent is dispatched without the task being marked
MarkInProgress_skipped ==
    /\ pc = "mark_in_progress"
    /\ pc' = "dispatch"
    /\ UNCHANGED <<issues, calls, completed, result, leaf_id, head, dirty, log,
                   dispatched, commit_sha, raised, attempt, params, history, locals>>

\* bd update leaf_id --status in_progress
MarkInProgress ==
    /\ pc = "mark_in_progress"
    /\ \/ /\ issues' = SetStatus(leaf_id, "in_progress")
          /\ calls' = Append(calls, StoreCall("update", leaf_id, "in_progress"))
          /\ pc' = "dispatch"
          /\ UNCHANGED <<completed, result, leaf_id, head, dirty, log, dispatched,
                         commit_sha, raised, attempt, params, history, locals>>
       \/ Raises("update")

\* mutant: the agent's failure is recorded on the task before it propagates
Dispatch_blocks_on_failure ==
    /\ pc = "dispatch"
    /\ dispatched' = Append(dispatched, leaf_id)
    /\ \E changed \in BOOLEAN : dirty' = (dirty \/ changed)
    /\ \/ pc' = "git_add" /\ raised' = raised /\ issues' = issues
       \/ /\ pc' = "raised"
          /\ raised' = "opencode"
          /\ issues' = SetStatus(leaf_id, "blocked")
    /\ UNCHANGED <<completed, result, leaf_id, head, log, calls,
                   commit_sha, attempt, params, history, locals>>

\* opencode_runner(command, ...): the agent may change the working tree, and
\* returns or terminates abnormally
Dispatch ==
    /\ pc = "dispatch"
    /\ dispatched' = Append(dispatched, leaf_id)
    /\ \E changed \in BOOLEAN : dirty' = (dirty \/ changed)
    /\ \/ pc' = "git_add" /\ raised' = raised
       \/ pc' = "raised" /\ raised' = "opencode"
    /\ UNCHANGED <<issues, completed, result, leaf_id, head, log, calls,
                   commit_sha, attempt, params, history, locals>>

\* git add .
GitAdd ==
    /\ pc = "git_add"
    /\ \/ /\ calls' = Append(calls, StoreCall("add", NoId, ""))
          /\ pc' = "git_status"
          /\ UNCHANGED <<issues, completed, result, leaf_id, head, dirty, log,
                         dispatched, commit_sha, raised, attempt, params, history, locals>>
       \/ Raises("add")

\* status_output = git status --porcelain; if not status_output.strip(): ...
GitStatus ==
    /\ pc = "git_status"
    /\ \/ /\ status_output' = IF dirty THEN "dirty" ELSE "clean"
          /\ pc' = IF ~dirty THEN "noop_rev_parse" ELSE "commit"
          /\ UNCHANGED <<issues, completed, result, leaf_id, head, dirty, log, calls,
                         dispatched, commit_sha, closed_status, raised, attempt,
                         params, history>>
       \/ Raises("status")

\* no pending changes: commit_sha = git rev-parse HEAD
NoopRevParse ==
    /\ pc = "noop_rev_parse"
    /\ \/ /\ commit_sha' = head
          /\ pc' = "noop_log"
          /\ UNCHANGED <<issues, completed, result, leaf_id, head, dirty, log, calls,
                         dispatched, raised, attempt, params, history, locals>>
       \/ Raises("rev-parse")

\* log_writer(..., status="blocked")
NoopLog ==
    /\ pc = "noop_log"
    /\ log' = Append(log, LogEntry(leaf_id, "blocked", commit_sha))
    /\ pc' = "noop_update"
    /\ UNCHANGED <<issues, completed, result, leaf_id, head, dirty, calls,
                   dispatched, commit_sha, raised, attempt, params, history, locals>>

\* mutant: "blocked" is returned without the store being told
NoopUpdate_skipped ==
    /\ pc = "noop_update"
    /\ result' = "blocked"
    /\ pc' = "outcome"
    /\ UNCHANGED <<issues, calls, completed, leaf_id, head, dirty, log, dispatched,
                   commit_sha, raised, attempt, params, history, locals>>

\* bd update leaf_id --status blocked; return "blocked"
\* mutant: the no-op path hands the task back as open
NoopUpdate_reopens ==
    /\ pc = "noop_update"
    /\ \/ /\ issues' = SetStatus(leaf_id, "open")
          /\ calls' = Append(calls, StoreCall("update", leaf_id, "open"))
          /\ result' = "blocked"
          /\ pc' = "outcome"
          /\ UNCHANGED <<completed, leaf_id, head, dirty, log, dispatched,
                         commit_sha, raised, attempt, params, history, locals>>
       \/ Raises("update")

NoopUpdate ==
    /\ pc = "noop_update"
    /\ \/ /\ issues' = SetStatus(leaf_id, "blocked")
          /\ calls' = Append(calls, StoreCall("update", leaf_id, "blocked"))
          /\ result' = "blocked"
          /\ pc' = "outcome"
          /\ UNCHANGED <<completed, leaf_id, head, dirty, log, dispatched,
                         commit_sha, raised, attempt, params, history, locals>>
       \/ Raises("update")

\* git commit -m commit_message
GitCommit ==
    /\ pc = "commit"
    /\ \/ /\ head' = head + 1
          /\ dirty' = FALSE
          /\ calls' = Append(calls, StoreCall("commit", NoId, ""))
          /\ pc' = "rev_parse"
          /\ UNCHANGED <<issues, completed, result, leaf_id, log, dispatched,
                         commit_sha, raised, attempt, params, history, locals>>
       \/ Raises("commit")

\* mutant: the revision resolved before the commit is logged
RevParse_stale ==
    /\ pc = "rev_parse"
    /\ \/ /\ commit_sha' = attempt.head
          /\ pc' = "log_completed"
          /\ UNCHANGED <<issues, completed, result, leaf_id, head, dirty, log, calls,
                         dispatched, raised, attempt, params, history, locals>>
       \/ Raises("rev-parse")

\* commit_sha = git rev-parse HEAD
RevParse ==
    /\ pc = "rev_parse"
    /\ \/ /\ commit_sha' = head
          /\ pc' = "log_completed"
          /\ UNCHANGED <<issues, completed, result, leaf_id, head, dirty, log, calls,
                         dispatched, raised, attempt, params, history, locals>>
       \/ Raises("rev-parse")

\* log_writer(..., status="completed")
LogCompleted ==
    /\ pc = "log_completed"
    /\ log' = Append(log, LogEntry(leaf_id, "completed", commit_sha))
    /\ pc' = "close"
    /\ UNCHANGED <<issues, completed, result, leaf_id, head, dirty, calls,
                   dispatched, commit_sha, raised, attempt, params, history, locals>>

\* bd close leaf_id: the call returns, and the store has closed the task or not
Close ==
    /\ pc = "close"
    /\ \/ /\ \E sticks \in BOOLEAN :
                issues' = IF sticks THEN SetStatus(leaf_id, "closed") ELSE issues
          /\ calls' = Append(calls, StoreCall("close", leaf_id, ""))
          /\ pc' = "verify"
          /\ UNCHANGED <<completed, result, leaf_id, head, dirty, log, dispatched,
                         commit_sha, raised, attempt, params, history, locals>>
       \/ Raises("close")

\* mutant: the re-fetched status is not tested
Verify_unchecked ==
    /\ pc = "verify"
    /\ \/ /\ closed_status' = issues[leaf_id].status
          /\ pc' = "sync"
          /\ UNCHANGED <<issues, completed, result, leaf_id, head, dirty, log, calls,
                         dispatched, status_output, commit_sha, raised, attempt,
                         params, history>>
       \/ Raises("refetch")

\* closed_status = bd show leaf_id ... .get("status"); if closed_status != "closed"
Verify ==
    /\ pc = "verify"
    /\ \/ /\ closed_status' = issues[leaf_id].status
          /\ pc' = IF issues[leaf_id].status # "closed" THEN "downgrade_log" ELSE "sync"
          /\ UNCHANGED <<issues, completed, result, leaf_id, head, dirty, log, calls,
                         dispatched, status_output, commit_sha, raised, attempt,
                         params, history>>
       \/ Raises("refetch")

\* log_writer(..., status="blocked") after the close did not stick
DowngradeLog ==
    /\ pc = "downgrade_log"
    /\ log' = Append(log, LogEntry(leaf_id, "blocked", commit_sha))
    /\ pc' = "downgrade_update"
    /\ UNCHANGED <<issues, completed, result, leaf_id, head, dirty, calls,
                   dispatched, commit_sha, raised, attempt, params, history, locals>>

\* bd update leaf_id --status blocked; return "blocked"
\* mutant: after a close that did not stick the task is handed back as open
DowngradeUpdate_reopens ==
    /\ pc = "downgrade_update"
    /\ \/ /\ issues' = SetStatus(leaf_id, "open")
          /\ calls' = Append(calls, StoreCall("update", leaf_id, "open"))
          /\ result' = "blocked"
          /\ pc' = "outcome"
          /\ UNCHANGED <<completed, leaf_id, head, dirty, log, dispatched,
                         commit_sha, raised, attempt, params, history, locals>>
       \/ Raises("update")

DowngradeUpdate ==
    /\ pc = "downgrade_update"
    /\ \/ /\ issues' = SetStatus(leaf_id, "blocked")
          /\ calls' = Append(calls, StoreCall("update", leaf_id, "blocked"))
          /\ result' = "blocked"
          /\ pc' = "outcome"
          /\ UNCHANGED <<completed, leaf_id, head, dirty, log, dispatched,
                         commit_sha, raised, attempt, params, history, locals>>
       \/ Raises("update")

\* bd sync; return "completed"
Sync ==
    /\ pc = "sync"
    /\ \/ /\ calls' = Append(calls, StoreCall("sync", NoId, ""))
          /\ result' = "completed"
          /\ pc' = "outcome"
          /\ UNCHANGED <<issues, completed, leaf_id, head, dirty, log, dispatched,
                         commit_sha, raised, attempt, params, history, locals>>
       \/ Raises("sync")

\* mutant: a blocked outcome ends the loop
Outcome_blocked_stops ==
    /\ pc = "outcome"
    /\ pc' = IF result \in {"no_tasks", "dry_run", "blocked"} THEN "returned" ELSE "loop"
    /\ completed' = IF result = "completed" THEN completed + 1 ELSE completed
    /\ outcomes' = Append(outcomes, result)
    /\ UNCHANGED <<issues, result, leaf_id, head, dirty, log, calls, dispatched,
                   commit_sha, raised, attempt, params, initial_issues, locals>>

\* mutant: every outcome that does not end the loop is counted
Outcome_counts_blocked ==
    /\ pc = "outcome"
    /\ pc' = IF result \in {"no_tasks", "dry_run"} THEN "returned" ELSE "loop"
    /\ completed' = IF result \in {"completed", "blocked"} THEN completed + 1
                    ELSE completed
    /\ outcomes' = Append(outcomes, result)
    /\ UNCHANGED <<issues, result, leaf_id, head, dirty, log, calls, dispatched,
                   commit_sha, raised, attempt, params, initial_issues, locals>>

\* run_loop: what it does with run_once's result
Outcome ==
    /\ pc = "outcome"
    /\ pc' = IF result \in {"no_tasks", "dry_run"} THEN "returned" ELSE "loop"
    /\ completed' = IF result = "completed" THEN completed + 1 ELSE completed
    /\ outcomes' = Append(outcomes, result)
    /\ UNCHANGED <<issues, result, leaf_id, head, dirty, log, calls, dispatched,
                   commit_sha, raised, attempt, params, initial_issues, locals>>

Next ==
    \/ LoopTest
    \/ Select
    \/ ShowTask
    \/ MarkInProgress
    \/ Dispatch
    \/ GitAdd
    \/ GitStatus
    \/ NoopRevParse
    \/ NoopLog
    \/ NoopUpdate
    \/ GitCommit
    \/ RevParse
    \/ LogCompleted
    \/ Close
    \/ Verify
    \/ DowngradeLog
    \/ DowngradeUpdate
    \/ Sync
    \/ Outcome

Spec == Init /\ [][Next]_vars

---------------------------------------------------------------------------
(* What the selection is meant to find, stated on the backlog itself       *)

SortKey(n) == PriorityKey(issues[n])

\* sibling a is scanned before sibling b: smaller key, ties in the store's order
ScannedBefore(a, b) ==
    \/ SortKey(a) < SortKey(b)
    \/ SortKey(a) = SortKey(b) /\ a < b

IsOpen(n) == issues[n].status = "open"
IsTask(n) == issues[n].issue_type = "task"
IsEpic(n) == issues[n].issue_type = "epic"

\* n and the nodes above it, the root left out
RECURSIVE SelfAndAncestors(_)
SelfAndAncestors(n) ==
    IF n = RootId THEN {} ELSE {n} \cup SelfAndAncestors(issues[n].parent)

\* the open tasks below top that the descent can reach: every node strictly
\* between the task and top is an open epic
OpenLeavesUnder(top) ==
    {t \in Ids :
        /\ IsTask(t) /\ IsOpen(t)
        /\ top = RootId \/ top \in SelfAndAncestors(t) \ {t}
        /\ \A a \in SelfAndAncestors(t) \ {t} :
              (top = RootId \/ top \in SelfAndAncestors(a) \ {a})
                  => IsEpic(a) /\ IsOpen(a)}

\* t comes before u in the priority-ordered pre-order
PreOrderBefore(t, u) ==
    \E a \in SelfAndAncestors(t), b \in SelfAndAncestors(u) :
        /\ a # b
        /\ issues[a].parent = issues[b].parent
        /\ ScannedBefore(a, b)

FirstOpenLeaf ==
    LET leaves == OpenLeavesUnder(RootId) IN
    IF leaves = {} THEN NoId
    ELSE CHOOSE t \in leaves : \A u \in leaves \ {t} : PreOrderBefore(t, u)

\* an open epic under which the descent finds no open task
Fruitless(e) == IsEpic(e) /\ IsOpen(e) /\ OpenLeavesUnder(e) = {}

IdSelected == pc \in {"select_tree", "selected"}
TreeSelected == pc = "selected"

---------------------------------------------------------------------------
(* C1: whatever backlog the selection is run on, the id it returns (by     *)
(* select_first_open_leaf_task_id, and by select_first_open_leaf_task on   *)
(* the materialized tree) is the id of a node that is not an epic and      *)
(* whose status is open.                                                   *)
C1_NeverEpicNeverNonOpen ==
    /\ (IdSelected /\ leaf_id # NoId) =>
          /\ leaf_id \in Ids
          /\ issues[leaf_id].issue_type # "epic"
          /\ issues[leaf_id].status = "open"
    /\ (TreeSelected /\ tree_leaf # NoId) =>
          /\ tree_leaf \in Ids
          /\ issues[tree_leaf].issue_type # "epic"
          /\ issues[tree_leaf].status = "open"

\* a task was returned from under an open epic, past a closed task and past
\* an open epic at the top level
C1_Witness ==
    /\ TreeSelected
    /\ leaf_id # NoId
    /\ tree_leaf = leaf_id
    /\ issues[leaf_id].parent # RootId
    /\ \E m \in Ids : IsTask(m) /\ ~IsOpen(m) /\ issues[m].parent = RootId
                      /\ ScannedBefore(m, issues[leaf_id].parent)

(* C2: on every backlog both selection functions return the first open     *)
(* task of the priority-ordered pre-order (children in ascending priority, *)
(* ties in the store's order, non-open children and what is below them     *)
(* skipped, open epics descended into), and none exactly when there is no  *)
(* such task.                                                              *)
C2_FirstInPriorityPreOrder ==
    /\ IdSelected => leaf_id = FirstOpenLeaf
    /\ TreeSelected => tree_leaf = FirstOpenLeaf

\* the task returned is not the open task of globally smallest priority
C2_Witness ==
    /\ TreeSelected
    /\ leaf_id # NoId
    /\ tree_leaf = leaf_id
    /\ \E u \in OpenLeavesUnder(RootId) : SortKey(u) < SortKey(leaf_id)

\* the children of a level are open tasks that carry pairwise distinct priorities
DistinctOpenTasks(items) ==
    /\ Len(items) >= 2
    /\ \A i \in 1..Len(items) :
          /\ items[i].status = "open"
          /\ items[i].issue_type = "task"
          /\ items[i].priority # NoPriority
    /\ \A i, j \in 1..Len(items) : i # j => items[i].priority # items[j].priority

SmallestPriorityId(items) ==
    items[CHOOSE i \in 1..Len(items) :
             \A j \in 1..Len(items) : items[i].priority <= items[j].priority].id

Permuted(items, perm) == [i \in 1..Len(items) |-> items[perm[i]]]

(* C3: when the children of a level (of the root or of an epic) are all    *)
(* open tasks with pairwise distinct priorities, the scan of that level    *)
(* returns the child with the smallest priority, in whatever order the     *)
(* children are handed in; and so do the two selections run on a backlog   *)
(* whose top level is such a level.                                        *)
C3_SmallestPriorityAnyInputOrder ==
    /\ \A p \in {RootId} \cup Ids :
          LET items == load_children(p)
              tree == Materialize(p)
          IN DistinctOpenTasks(items) =>
                \A perm \in Permutations(1..Len(items)) :
                    /\ walk_items(Permuted(items, perm)) = SmallestPriorityId(items)
                    /\ select_first_open_leaf_task(Permuted(tree, perm))
                          = SmallestPriorityId(items)
    /\ DistinctOpenTasks(load_children(RootId)) =>
          /\ IdSelected => leaf_id = SmallestPriorityId(load_children(RootId))
          /\ TreeSelected => tree_leaf = SmallestPriorityId(load_children(RootId))

\* the top level is such a level, the store lists the smallest priority last
C3_Witness ==
    /\ TreeSelected
    /\ DistinctOpenTasks(load_children(RootId))
    /\ leaf_id = load_children(RootId)[Len(load_children(RootId))].id
    /\ tree_leaf = leaf_id

(* C4: an open epic under which no open task can be reached does not end   *)
(* the scan of its level: an open task of that level before which only     *)
(* non-open children and such epics are scanned (and at least one such     *)
(* epic) is what the scan of the level returns, and what both selections   *)
(* return when the level is the top level.                                 *)
BehindFruitlessEpic(t) ==
    /\ IsTask(t) /\ IsOpen(t)
    /\ \E e \in Ids : /\ issues[e].parent = issues[t].parent
                      /\ Fruitless(e)
                      /\ ScannedBefore(e, t)
    /\ \A s \in Ids : (issues[s].parent = issues[t].parent /\ ScannedBefore(s, t))
                         => (~IsOpen(s) \/ Fruitless(s))

C4_FruitlessEpicIsPassed ==
    \A t \in Ids :
        BehindFruitlessEpic(t) =>
            /\ walk(issues[t].parent) = t
            /\ find_leaf(Materialize(issues[t].parent)) = t
            /\ issues[t].parent = RootId =>
                  /\ IdSelected => leaf_id = t
                  /\ TreeSelected => tree_leaf = t

\* a top-level task was returned past an open epic that holds only a closed task
C4_Witness ==
    /\ TreeSelected
    /\ leaf_id # NoId
    /\ tree_leaf = leaf_id
    /\ issues[leaf_id].parent = RootId
    /\ BehindFruitlessEpic(leaf_id)
    /\ \E e, c \in Ids : /\ issues[e].parent = RootId
                         /\ Fruitless(e)
                         /\ ScannedBefore(e, leaf_id)
                         /\ issues[c].parent = e

---------------------------------------------------------------------------
(* What one run_once has done since it was called                          *)

NewLog == SubSeq(log, attempt.log_n + 1, Len(log))
NewCalls == SubSeq(calls, attempt.calls_n + 1, Len(calls))
NewDispatches == SubSeq(dispatched, attempt.disp_n + 1, Len(dispatched))

CallsOf(cs, ops) == SelectSeq(cs, LAMBDA c : c.op \in ops)

StoreMutations == {"update", "close", "sync"}

Returned(outcome) == pc = "outcome" /\ result = outcome

(* C5: a run_once whose selection found no task returns no_tasks, and a    *)
(* run_once that returns no_tasks has appended no log entry, issued no     *)
(* update, close or sync (nor any other mutating call), made no commit and *)
(* not dispatched the agent.                                               *)
C5_NoTasksNoEffect ==
    /\ (pc = "outcome" /\ leaf_id = NoId) => result = "no_tasks"
    /\ Returned("no_tasks") =>
          /\ leaf_id = NoId
          /\ select_first_open_leaf_task_id(RootId) = NoId
          /\ NewLog = <<>>
          /\ NewCalls = <<>>
          /\ head = attempt.head
          /\ NewDispatches = <<>>

\* no_tasks is returned after earlier attempts of the run left their traces
C5_Witness ==
    /\ Returned("no_tasks")
    /\ attempt.n > 1
    /\ log # <<>>
    /\ calls # <<>>

(* C6: a run_once in which the agent returned and git status showed no     *)
(* pending changes returns blocked with exactly one new log entry: status  *)
(* blocked, commit_sha the head revision of before the attempt. No commit  *)
(* was made, the head is unchanged, and the task is blocked in the store.  *)
C6_NoChangeIsBlocked ==
    (pc = "outcome" /\ status_output = "clean") =>
        /\ result = "blocked"
        /\ NewDispatches = <<leaf_id>>
        /\ NewLog = <<LogEntry(leaf_id, "blocked", attempt.head)>>
        /\ head = attempt.head
        /\ CallsOf(NewCalls, {"commit"}) = <<>>
        /\ issues[leaf_id].status = "blocked"

\* the no-change path taken when the head is no longer the initial revision
C6_Witness ==
    /\ pc = "outcome"
    /\ status_output = "clean"
    /\ result = "blocked"
    /\ attempt.head > 0

(* C7: a run_once that committed the agent's changes and then re-fetched a *)
(* status other than closed returns blocked with exactly two new log       *)
(* entries, completed and then blocked, both with the head revision the    *)
(* commit made; the task is blocked in the store and sync was not called.  *)
C7_CloseDidNotStick ==
    (pc = "outcome" /\ closed_status \notin {"", "closed"}) =>
        /\ result = "blocked"
        /\ status_output = "dirty"
        /\ head = attempt.head + 1
        /\ NewLog = <<LogEntry(leaf_id, "completed", head),
                      LogEntry(leaf_id, "blocked", head)>>
        /\ issues[leaf_id].status = "blocked"
        /\ CallsOf(NewCalls, {"sync"}) = <<>>

C7_Witness ==
    /\ pc = "outcome"
    /\ closed_status = "in_progress"
    /\ result = "blocked"
    /\ Len(NewLog) = 2

(* C8: run_once returns completed exactly when it re-fetched the status    *)
(* closed after committing changes; then it has appended exactly one log   *)
(* entry (completed, the head the commit made), the task is closed in the  *)
(* store and sync was called once, as the last call, after the close. At   *)
(* no point of any other path has sync been called.                        *)
C8_CompletedOnlyWhenClosed ==
    /\ pc = "outcome" => (result = "completed" <=> closed_status = "closed")
    /\ Returned("completed") =>
          /\ status_output = "dirty"
          /\ head = attempt.head + 1
          /\ NewLog = <<LogEntry(leaf_id, "completed", head)>>
          /\ issues[leaf_id].status = "closed"
          /\ NewCalls = <<StoreCall("update", leaf_id, "in_progress"),
                          StoreCall("add", NoId, ""),
                          StoreCall("commit", NoId, ""),
                          StoreCall("close", leaf_id, ""),
                          StoreCall("sync", NoId, "")>>
    /\ CallsOf(NewCalls, {"sync"}) # <<>> =>
          /\ closed_status = "closed"
          /\ result = "completed"
          /\ Len(CallsOf(NewCalls, {"sync"})) = 1
          /\ NewCalls[Len(NewCalls)].op = "sync"

C8_Witness ==
    /\ Returned("completed")
    /\ issues[leaf_id].status = "closed"
    /\ attempt.n > 1

(* C9 as stated: whatever max_tasks = N is given, the counter is at most N *)
(* at every point of run_loop.                                             *)
C9_AtMostN_AnyN ==
    max_tasks # NoMax => completed <= max_tasks

(* C9: for every N >= 0, with max_tasks = N the counter is at most N at    *)
(* every point of run_loop and so is the count returned, also when open    *)
(* tasks remain; for a negative N the count is 0.                          *)
C9_AtMostN ==
    /\ (max_tasks # NoMax /\ max_tasks >= 0) => completed <= max_tasks
    /\ (max_tasks # NoMax /\ max_tasks < 0) => completed = 0

\* run_loop returned N = 1 while the backlog still holds an open task
C9_Witness ==
    /\ pc = "returned"
    /\ max_tasks = 1
    /\ completed = 1
    /\ select_first_open_leaf_task_id(RootId) # NoId

(* C10: with dry_run set, run_once is called at most once in the run, no   *)
(* mutating store call (update, close, sync) and no version-control call   *)
(* is issued, no commit is made, nothing is logged, the agent is never     *)
(* dispatched and the counter, hence the count returned, is 0.             *)
C10_DryRunNoEffect ==
    dry_run =>
        /\ attempt.n <= 1
        /\ calls = <<>>
        /\ head = 0
        /\ log = <<>>
        /\ dispatched = <<>>
        /\ completed = 0
        /\ \A n \in Ids : issues[n].status \in InitialStatuses
        /\ pc = "returned" => result \in {"", "no_tasks", "dry_run"}

\* the dry run previewed an open task and run_loop returned
C10_Witness ==
    /\ dry_run
    /\ pc = "returned"
    /\ result = "dry_run"
    /\ leaf_id # NoId
    /\ issues[leaf_id].status = "open"

---------------------------------------------------------------------------
(* What a run has done to the backlog it found                             *)

\* the open tasks the descent could reach when the run started (epics keep
\* their status during a run)
InitiallyOpenLeaves ==
    {t \in Ids :
        /\ IsTask(t)
        /\ initial_issues[t].status = "open"
        /\ \A a \in SelfAndAncestors(t) \ {t} :
              IsEpic(a) /\ initial_issues[a].status = "open"}

\* the agent has not left a change in the working tree so far: a change
\* stays pending until it is committed, and a commit moves the head
NeverChanged == head = 0 /\ ~dirty

Occurrences(seq, x) == Cardinality({i \in 1..Len(seq) : seq[i] = x})

(* C11: when the agent never changes the working tree, a run_loop that     *)
(* returns (with max_tasks unset or at least 1, dry_run off) has executed  *)
(* every open task the descent could reach, each once and one after the    *)
(* other, every run_once before the last returned blocked, each of those   *)
(* tasks is blocked in the store, and the count returned is 0: blocked     *)
(* outcomes are neither counted nor bounded by max_tasks, and do not stop  *)
(* the loop.                                                               *)
C11_BlockedDrainsBacklog ==
    (/\ pc = "returned"
     /\ ~dry_run
     /\ NeverChanged
     /\ max_tasks = NoMax \/ max_tasks >= 1) =>
        /\ completed = 0
        /\ \A t \in InitiallyOpenLeaves :
              issues[t].status = "blocked" /\ Occurrences(dispatched, t) = 1
        /\ Len(dispatched) = Cardinality(InitiallyOpenLeaves)
        /\ Len(outcomes) = Cardinality(InitiallyOpenLeaves) + 1
        /\ \A i \in 1..Len(outcomes) :
              outcomes[i] = IF i < Len(outcomes) THEN "blocked" ELSE "no_tasks"

\* max_tasks = 1, and three tasks were executed and left blocked
C11_Witness ==
    /\ pc = "returned"
    /\ max_tasks = 1
    /\ NeverChanged
    /\ completed = 0
    /\ Cardinality(InitiallyOpenLeaves) >= 2
    /\ Len(dispatched) = Cardinality(InitiallyOpenLeaves)
    /\ \A t \in InitiallyOpenLeaves : issues[t].status = "blocked"

(* C12: when the agent terminates abnormally, run_once returns nothing and *)
(* the failure leaves run_loop: no step follows, run_loop receives no      *)
(* outcome for the attempt, and what is left is the selected task          *)
(* in_progress in the store (the update to in_progress is the attempt's    *)
(* only mutating call), no log entry of the attempt, nothing staged and    *)
(* nothing committed.                                                      *)
C12_AgentFailureIsFatal ==
    raised = "opencode" =>
        /\ pc = "raised"
        /\ ~ENABLED Next
        /\ Len(outcomes) = attempt.n - 1
        /\ NewDispatches = <<leaf_id>>
        /\ issues[leaf_id].status = "in_progress"
        /\ initial_issues[leaf_id].status = "open"
        /\ NewCalls = <<StoreCall("update", leaf_id, "in_progress")>>
        /\ NewLog = <<>>
        /\ head = attempt.head
        /\ status_output = ""

\* the agent failed in a later attempt of the run, after it changed the tree
C12_Witness ==
    /\ raised = "opencode"
    /\ pc = "raised"
    /\ attempt.n > 1
    /\ dirty
    /\ issues[leaf_id].status = "in_progress"

\* the tasks the run closed
ClosedByRun ==
    {t \in Ids : issues[t].status = "closed" /\ initial_issues[t].status # "closed"}

C13_CountAtEveryPoint ==
    /\ completed = Occurrences(outcomes, "completed")
    /\ pc = "returned" =>
          /\ completed = Cardinality(ClosedByRun)
          /\ completed = Len(CallsOf(calls, {"sync"}))
          /\ completed + Occurrences(outcomes, "blocked") = Len(dispatched)
          /\ completed <= head
          /\ \A t \in ClosedByRun :
                Occurrences([i \in 1..Len(log) |-> log[i].issue_id], t) = 1

(* C13: at every point the counter is the number of run_once calls that    *)
(* returned completed so far, and it never decreases; when run_loop        *)
(* returns, the count is the number of tasks the run committed and left    *)
(* closed (one sync and one single log entry each), and the tasks that     *)
(* ended blocked, committed or not, are not in it.                         *)
C13_CountIsCompletedOutcomes ==
    []C13_CountAtEveryPoint /\ [][completed' >= completed]_vars

\* a run returned 1 after one completed task, one task committed but not
\* closed, and one task without change
C13_Witness ==
    /\ pc = "returned"
    /\ completed = 1
    /\ head = 2
    /\ Occurrences(outcomes, "blocked") = 2
    /\ Cardinality(ClosedByRun) = 1

StatusMoves ==
    {<<"open", "in_progress">>, <<"in_progress", "closed">>,
     <<"in_progress", "blocked">>}

C14_Step ==
    \* only the selected task changes, only in its status, only along the lifecycle
    /\ \A n \in Ids :
          issues'[n] # issues[n] =>
              /\ n = leaf_id
              /\ issues'[n] = [issues[n] EXCEPT !.status = issues'[n].status]
              /\ <<issues[n].status, issues'[n].status>> \in StatusMoves
    \* the agent runs on a task that is in_progress
    /\ pc = "dispatch" =>
          /\ issues[leaf_id].status = "in_progress"
          /\ NewCalls = <<StoreCall("update", leaf_id, "in_progress")>>
    \* every store call names the selected task, and a close or an update to
    \* blocked follows the attempt's update to in_progress
    /\ calls' # calls =>
          LET call == calls'[Len(calls')] IN
          /\ calls' = Append(calls, call)
          /\ call.op \in {"update", "close"} => call.id = leaf_id
          /\ (call.op = "close" \/ call.status = "blocked") =>
                /\ NewCalls # <<>>
                /\ NewCalls[1] = StoreCall("update", leaf_id, "in_progress")
    \* the selection walk only reads
    /\ pc = "select" => (calls' = calls /\ issues' = issues)

(* C14: in every step of a run, the store status that changes is that of   *)
(* the selected task alone, along open -> in_progress -> closed or         *)
(* blocked; the agent is dispatched on a task already set to in_progress;  *)
(* a close or an update to blocked is issued only after the update to      *)
(* in_progress of the same attempt; and the selection issues no mutating   *)
(* call.                                                                   *)
C14_OnlySelectedTaskAlongLifecycle == [][C14_Step]_vars

\* one task went open -> in_progress -> closed, another -> blocked, a third
\* was never selected and is as the run found it
C14_Witness ==
    /\ pc = "returned"
    /\ \E a, b, c \in Ids :
          /\ initial_issues[a].status = "open" /\ issues[a].status = "closed"
          /\ initial_issues[b].status = "open" /\ issues[b].status = "blocked"
          /\ issues[c] = initial_issues[c]
          /\ IsTask(c)
          /\ Occurrences(dispatched, c) = 0

CapReached == max_tasks # NoMax /\ completed >= max_tasks

C15_State ==
    /\ CapReached => pc \in {"loop", "returned"}
    /\ (max_tasks # NoMax /\ max_tasks <= 0) =>
          /\ attempt.n = 0
          /\ outcomes = <<>>
          /\ issues = initial_issues
          /\ log = <<>> /\ calls = <<>> /\ dispatched = <<>> /\ head = 0
          /\ completed = 0

C15_Step ==
    \* run_once is called only from the loop head, after the test let it pass
    /\ attempt' # attempt =>
          /\ pc = "loop"
          /\ ~CapReached
          /\ attempt'.n = attempt.n + 1
    \* with the cap reached the only step is the return, and it changes nothing
    /\ CapReached =>
          /\ pc = "loop"
          /\ pc' = "returned"
          /\ UNCHANGED <<attempt, issues, log, calls, dispatched, head, dirty,
                         completed, outcomes, leaf_id, raised>>

(* C15: run_once is called only after the max_tasks test, made at the loop *)
(* head, let it pass; once the counter has reached max_tasks the only step *)
(* left is run_loop's return, so no selection, store call, dispatch,       *)
(* commit or log entry follows; with max_tasks 0 or negative run_once is   *)
(* never called, nothing is touched and 0 is returned.                     *)
C15_CapTestedBeforeEachCall == []C15_State /\ [][C15_Step]_vars

\* the cap of 1 was reached in the second attempt, open work remains
C15_Witness ==
    /\ pc = "returned"
    /\ max_tasks = 1
    /\ completed = 1
    /\ attempt.n = 2
    /\ outcomes = <<"blocked", "completed">>
    /\ OpenLeavesUnder(RootId) # {}

\* the parents whose children a selection walk sorts
Parents == {RootId} \cup {n \in Ids : IsEpic(n)}

\* in the sorted list every item with an integer priority precedes every
\* item without one
MissingPriorityLast(s) ==
    \A i, j \in 1..Len(s) :
        (s[i].priority # NoPriority /\ s[j].priority = NoPriority) => i < j

(* C16: in the sorted children of every parent, under both selection       *)
(* functions, a child without a priority comes after every sibling that    *)
(* has an integer priority, whatever that integer is.                      *)
C16_MissingPriorityScannedLast ==
    \A p \in Parents :
        /\ MissingPriorityLast(sorted_items(load_children(p)))
        /\ MissingPriorityLast(find_leaf_sorted_items(Materialize(p)))

\* both selections picked the open task without a priority although an open
\* sibling has an integer priority
C16_Witness ==
    /\ pc = "selected"
    /\ leaf_id # NoId
    /\ tree_leaf = leaf_id
    /\ issues[leaf_id].priority = NoPriority
    /\ \E n \in Ids \ {leaf_id} :
          /\ issues[n].parent = issues[leaf_id].parent
          /\ IsTask(n) /\ IsOpen(n)
          /\ issues[n].priority # NoPriority

---------------------------------------------------------------------------
(* Termination of run_loop *)

\* how far control is from the end of the current run_once, counted in the
\* steps of run_once; the steps after the in_progress update come before the
\* loop head of the next iteration
Position ==
    CASE pc \in {"returned", "raised"} -> 0
      [] pc = "outcome" /\ result \in {"no_tasks", "dry_run"} -> 1
      [] pc = "mark_in_progress" -> 2
      [] pc = "show" -> 3
      [] pc = "select" -> 4
      [] pc = "loop" -> 5
      [] pc = "outcome" /\ result \notin {"no_tasks", "dry_run"} -> 6
      [] pc \in {"sync", "downgrade_update", "noop_update"} -> 7
      [] pc \in {"downgrade_log", "noop_log"} -> 8
      [] pc \in {"verify", "noop_rev_parse"} -> 9
      [] pc = "close" -> 10
      [] pc = "log_completed" -> 11
      [] pc = "rev_parse" -> 12
      [] pc = "commit" -> 13
      [] pc = "git_status" -> 14
      [] pc = "git_add" -> 15
      [] pc = "dispatch" -> 16

\* the variant of run_loop: the number of open tasks a walk can reach, then
\* the position; every step makes the pair smaller
VariantDecreases ==
    \/ Cardinality(OpenLeavesUnder(RootId)') < Cardinality(OpenLeavesUnder(RootId))
    \/ /\ Cardinality(OpenLeavesUnder(RootId)') = Cardinality(OpenLeavesUnder(RootId))
       /\ Position' < Position

BetweenAttempts == pc \in {"loop", "returned"}

OpenLeavesNow == OpenLeavesUnder(RootId)

\* the run_once calls so far that returned something other than no_tasks
WorkingOutcomes == Len(outcomes) - Occurrences(outcomes, "no_tasks")

\* every run_once that did not return no_tasks took one task out of the open ones
EachRunMovesOneTask ==
    BetweenAttempts =>
        Cardinality(OpenLeavesNow) = Cardinality(InitiallyOpenLeaves) - WorkingOutcomes

\* without max_tasks the loop ends with no_tasks, after at most one run_once
\* per initially open task
EndsWithNoTasks ==
    (pc = "returned" /\ max_tasks = NoMax) =>
        /\ outcomes # <<>>
        /\ outcomes[Len(outcomes)] = "no_tasks"
        /\ Len(outcomes) <= Cardinality(InitiallyOpenLeaves) + 1
        /\ OpenLeavesNow = {}

BoundedAttempts == attempt.n <= Cardinality(InitiallyOpenLeaves) + 1

\* the selection walk of the current backlog ends, with a task id or with none
WalkReturns == select_first_open_leaf_task_id(RootId) \in Ids \cup {NoId}

\* before the return or a raise a step is always possible; at the selection
\* step that is the walk returning
NeverStuck ==
    \/ pc \in {"returned", "raised"}
    \/ pc = "select" /\ WalkReturns
    \/ pc \notin {"returned", "raised", "select"} /\ ENABLED Next

\* a dry run ends after its first run_once and changes no status
DryRunIsOneLook ==
    dry_run =>
        /\ issues = initial_issues
        /\ attempt.n <= 1
        /\ Len(outcomes) <= 1
        /\ (pc = "returned" /\ max_tasks = NoMax) =>
              outcomes \in {<<"dry_run">>, <<"no_tasks">>}

(* C17, as stated: run_loop terminates; every run_once that does not       *)
(* return no_tasks moves one open task to a non-open status, and without   *)
(* max_tasks the loop reaches no_tasks after at most one run_once per      *)
(* initially open task.                                                    *)
C17_TerminatesByNoTasks ==
    /\ [](EachRunMovesOneTask /\ EndsWithNoTasks /\ BoundedAttempts /\ NeverStuck)
    /\ [][VariantDecreases]_vars

(* C17, amended: run_loop terminates within one run_once per initially     *)
(* open task plus one: every step makes the variant smaller and control is *)
(* never stuck before the return or a raise. With dry_run false every run_once that does not     *)
(* return no_tasks moves one open task to a non-open status and, without   *)
(* max_tasks, the loop ends with no_tasks and no open task left; with      *)
(* dry_run true the loop ends after its first run_once, which returns      *)
(* dry_run or no_tasks and changes no status.                              *)
C17_Terminates ==
    /\ [](/\ ~dry_run => (EachRunMovesOneTask /\ EndsWithNoTasks)
          /\ DryRunIsOneLook
          /\ BoundedAttempts
          /\ NeverStuck)
    /\ [][VariantDecreases]_vars

\* a run without max_tasks that drained three open tasks and then found none
C17_Witness ==
    /\ pc = "returned"
    /\ max_tasks = NoMax
    /\ ~dry_run
    /\ Cardinality(InitiallyOpenLeaves) = NumIssues
    /\ Len(outcomes) = NumIssues + 1
    /\ attempt.n = NumIssues + 1
    /\ OpenLeavesNow = {}

---------------------------------------------------------------------------
(* Failure of the Task Record fetch *)

(* C18: when bd show of the selected task fails, run_once raises instead   *)
(* of returning an outcome and run_loop does not go on; the selected task  *)
(* is still open in the store, and since the start of this run_once there  *)
(* has been no store mutation, no log entry, no dispatch and no commit.    *)
C18_ShowFailureBeforeSideEffects ==
    raised = "show" =>
        /\ pc = "raised"
        /\ ~ENABLED Next
        /\ Len(outcomes) = attempt.n - 1
        /\ leaf_id # NoId
        /\ issues[leaf_id].status = "open"
        /\ NewCalls = <<>>
        /\ NewLog = <<>>
        /\ NewDispatches = <<>>
        /\ leaf_id \notin {dispatched[i] : i \in 1..Len(dispatched)}
        /\ head = attempt.head
        /\ status_output = "" /\ commit_sha = NoSha

\* the fetch failed in the second run_once, after a first task was worked on
C18_Witness ==
    /\ raised = "show"
    /\ attempt.n = 2
    /\ log # <<>>
    /\ dispatched # <<>>
    /\ issues[leaf_id].status = "open"

---------------------------------------------------------------------------
(* One dispatch per task *)

Dispatched == {dispatched[i] : i \in 1..Len(dispatched)}

(* C19: within one run no task is dispatched twice, and a task that was    *)
(* dispatched before (it ended closed or blocked) is not the task selected *)
(* by a later run_once of the same run.                                    *)
C19_NoTaskDispatchedTwice ==
    /\ \A i, j \in 1..Len(dispatched) : dispatched[i] = dispatched[j] => i = j
    /\ (pc \in {"show", "mark_in_progress", "dispatch"} /\ leaf_id # NoId) =>
           leaf_id \notin Dispatched
    /\ \A t \in Dispatched :
           BetweenAttempts => issues[t].status \in {"closed", "blocked"}

\* three tasks were dispatched once each: one made no change, one close did
\* not stick, one was completed; the next selection found nothing
C19_Witness ==
    /\ pc = "returned"
    /\ Len(dispatched) = 3
    /\ Cardinality(Dispatched) = 3
    /\ Occurrences(outcomes, "blocked") = 2
    /\ Occurrences(outcomes, "completed") = 1
    /\ outcomes[Len(outcomes)] = "no_tasks"
    /\ head = 2
    /\ \E t \in Dispatched : issues[t].status = "closed"

---------------------------------------------------------------------------
(* The two selection functions *)

(* C20: on every backlog (a finite forest whose nodes have unique,         *)
(* non-empty ids) select_first_open_leaf_task applied to the materialized  *)
(* children of the root returns what select_first_open_leaf_task_id        *)
(* returns for the root id: the same task id, or none in both.             *)
C20_SelectionVariantsAgree ==
    TreeSelected =>
        /\ tree_leaf = leaf_id
        /\ tree_leaf = select_first_open_leaf_task(Materialize(RootId))
        /\ leaf_id = select_first_open_leaf_task_id(RootId)

\* both returned the same task inside an epic, after passing an open epic
\* without children at the root level
C20_Witness ==
    /\ TreeSelected
    /\ leaf_id # NoId
    /\ tree_leaf = leaf_id
    /\ issues[leaf_id].parent # RootId
    /\ \E e \in Ids : /\ issues[e].parent = RootId
                      /\ IsEpic(e) /\ IsOpen(e)
                      /\ ChildIds(e) = <<>>
                      /\ ScannedBefore(e, issues[leaf_id].parent)

====
